---- MODULE Spec2Model ----
(***************************************************************************)
(* Driverator: a Handle on one Google Drive file (src/driverator/          *)
(* driverator.py).  The module models the Handle's fields, the remote      *)
(* store the Drive client talks to, the on-disk metadata cache written by  *)
(* json_cache_save, and the local resource download() writes.  Each public *)
(* coroutine of the class is one action; the remote client's calls         *)
(* (files get/list/create/update/delete, and permissions) are operators on *)
(* the remote store.                                                       *)
(*                                                                         *)
(* Abstractions, stated once:                                              *)
(*  - createdTime / modifiedTime are not modelled (no remote clock); size  *)
(*    and mimeType stand for the metadata the provider returns.            *)
(*  - files.list returns its matches in a provider-defined order; the code *)
(*    takes files[0], so a find adopts ANY match (nondeterministic).       *)
(*  - a remote call either succeeds or raises; the input net = FALSE makes *)
(*    the first remote call of the handler raise.                          *)
(*  - JSONCache (package cacherator) is external: json_cache_save() writes *)
(*    the Handle's JSON-able fields under its data_id; the model records   *)
(*    the entry a call wrote as part of what that call did (last.cache).   *)
(*    The constructor's cache load is not modelled.                        *)
(***************************************************************************)
EXTENDS Integers, Sequences, FiniteSets, TLC

\* ---------------------------------------------------------------- bounds
NumHandles == 2
MaxId == 4
\* calls the caller makes in one run
MaxCalls == 6
\* calls two callers resolving by name make in one run
MaxResolveCalls == 8
\* calls and remote changes in a behaviour of SpecMove
MaxMoveCalls == 7

\* ------------------------------------------------------------- constants
None == 0
NoName == ""
NoUrl == <<>>
NoFile == "<no local resource>"

Handles == 1..NumHandles
Ids == 1..MaxId

\* local resources of the test fixtures and their contents
LocalPaths == {"test/pytest_upload.txt", "updated/pytest_upload.txt"}
MissingPath == "missing.txt"
ContentOf(path) ==
    IF path = "test/pytest_upload.txt" THEN "Test content"
    ELSE "Updated content"
SizeOf(content) ==
    CASE content = "Test content" -> 12
      [] content = "Updated content" -> 15
      [] OTHER -> 0
\* Path(local_path).name
BaseName(path) ==
    IF path \in LocalPaths THEN "pytest_upload.txt" ELSE path

FileNames == {"pytest_upload.txt", "pytest_renamed.txt"}
FolderNames == {"Driverator Pytest", "Driverator Pytest Archive"}
FOLDER_MIME == "application/vnd.google-apps.folder"
PLAIN_MIME == "text/plain"

Emails == {"arved.kloehn@gmail.com", "second@example.com"}
OtherEmail == "nobody@example.com"
ServiceEmail == "service-account@project.iam"
Roles == {"reader"}

VARIABLES
    handle,      \* handle[h]: the fields of Driverator instance h
    drive,       \* drive[i]: the remote object with id i
    nextId,      \* the next id the provider hands out
    downloaded,  \* content of the local resource download() writes
    hist,        \* history: hist.put[i], the contents callers sent to object i,
                 \* oldest first; hist.deleted, the ids delete() succeeded on
    ncalls,      \* calls made so far by the callers
    last         \* the last call: operation, handle, outcome, remote calls,
                 \* value returned, cache entry written

vars == <<handle, drive, nextId, downloaded, hist, ncalls, last>>

\* ------------------------------------------------------------ the remote
NoObject ==
    [kind |-> "none", name |-> NoName, parents |-> {}, trashed |-> FALSE,
     content |-> "", perms |-> <<>>]

OwnerPermission ==
    [id |-> "owner", type |-> "user", role |-> "owner",
     emailAddress |-> ServiceEmail]

Present(d, i) == i \in Ids /\ d[i].kind # "none"

MimeOf(obj) == IF obj.kind = "folder" THEN FOLDER_MIME ELSE PLAIN_MIME

\* files().list(q = name='..' and mimeType='folder' and trashed=false
\*                  [and '<parent>' in parents])
FolderQuery(d, name, parent) ==
    {i \in Ids : /\ d[i].kind # "none"
                 /\ d[i].name = name
                 /\ MimeOf(d[i]) = FOLDER_MIME
                 /\ ~d[i].trashed
                 /\ (parent # None => parent \in d[i].parents)}

\* files().list(q = name='..' and trashed=false and mimeType!='folder'
\*                  [and '<folder>' in parents])
FileQuery(d, name, scope) ==
    {i \in Ids : /\ d[i].kind # "none"
                 /\ d[i].name = name
                 /\ ~d[i].trashed
                 /\ MimeOf(d[i]) # FOLDER_MIME
                 /\ (scope # None => scope \in d[i].parents)}

\* files[0]['id'] if files else None: any match, in the provider's order
FirstOf(matches) == IF matches = {} THEN {None} ELSE matches

\* files().create(body = {name, mimeType, parents}, media_body)
FilesCreate(d, i, kind, name, parents, content) ==
    [d EXCEPT ![i] = [kind |-> kind, name |-> name, parents |-> parents,
                      trashed |-> FALSE, content |-> content,
                      perms |-> <<OwnerPermission>>]]

\* ----------------------------------------------------------- the Handle
ViewUrl(fid) == <<"https://drive.google.com/file/d/", fid, "/view">>
DownloadUrl(fid) == <<"https://drive.google.com/uc?export=download&id=", fid>>

\* cache_id = f"driverator_{file_name or file_id or 'file'}"
CacheId(file_name, file_id) ==
    IF file_name # NoName THEN <<"driverator_", file_name, None>>
    ELSE IF file_id # None THEN <<"driverator_", NoName, file_id>>
    ELSE <<"driverator_", "file", None>>

NoEntry == [saved |-> FALSE]

\* the JSON-able instance fields json_cache_save() writes
CacheEntry(hd) ==
    [saved |-> TRUE, data_id |-> hd.cache_id,
     file_id |-> hd.file_id, file_name |-> hd.file_name,
     folder_id |-> hd.folder_id, folder_name |-> hd.folder_name,
     size |-> hd.size, mime_type |-> hd.mime_type,
     url |-> hd.url, download_url |-> hd.download_url]

\* JSONCache.json_cache_save: the entry written under the Handle's data_id
json_cache_save(hd) == CacheEntry(hd)

NoHandle == [file_id |-> None]

\* what the caller of an operation observes: the exception raised (or "ok"),
\* the value returned, the remote calls issued and whether the cache was saved
Result(op, h, outcome, calls, saved) ==
    [op |-> op, h |-> h, outcome |-> outcome, calls |-> calls,
     saved |-> saved, cache |-> NoEntry, ret |-> FALSE, perms |-> <<>>,
     arg |-> NoName, argId |-> None, net |-> TRUE, before |-> NoHandle,
     previous_parents |-> {}]

\* the call ended with self.json_cache_save() (only when it saved)
Saving(result, hd) ==
    IF result.saved THEN [result EXCEPT !.cache = json_cache_save(hd)]
    ELSE result

\* Driverator.__init__
NewHandle(file_id, file_name, folder_id, folder_name) ==
    [file_id |-> file_id, file_name |-> file_name,
     folder_id |-> folder_id, folder_name |-> folder_name,
     size |-> None, mime_type |-> NoName,
     url |-> NoUrl, download_url |-> NoUrl,
     drive_service |-> FALSE,
     cache_id |-> CacheId(file_name, file_id)]

Init ==
    /\ handle = [h \in Handles |-> NewHandle(None, NoName, None, NoName)]
    /\ drive = [i \in Ids |-> NoObject]
    /\ nextId = 1
    /\ downloaded = NoFile
    /\ hist = [put |-> [i \in Ids |-> <<>>], deleted |-> {}]
    /\ ncalls = 0
    /\ last = Result("init", 1, "ok", 0, FALSE)

\* faulty variant of exists: "trashed" is not looked at
exists_ignoring_trashed(d, hd, net) ==
    hd.file_id # None /\ hd.drive_service /\ net /\ Present(d, hd.file_id)

\* Driverator.exists: the value returned
exists(d, hd, net) ==
    IF hd.file_id = None THEN FALSE
    ELSE IF ~hd.drive_service THEN FALSE      \* AttributeError, swallowed
    ELSE IF ~net THEN FALSE                   \* remote failure, swallowed
    ELSE IF ~Present(d, hd.file_id) THEN FALSE   \* 404, swallowed
    ELSE ~d[hd.file_id].trashed

\* faulty variant of existsCalls: the fetch is issued without the file_id guard
existsCalls_unguarded(hd) == IF ~hd.drive_service THEN 0 ELSE 1

\* remote calls exists() issues
existsCalls(hd) ==
    IF hd.file_id = None \/ ~hd.drive_service THEN 0 ELSE 1

\* Driverator._load_metadata: the fields after files().get
load_metadata(d, hd) ==
    [hd EXCEPT !.file_name = d[hd.file_id].name,
               !.size = SizeOf(d[hd.file_id].content),
               !.mime_type = MimeOf(d[hd.file_id]),
               !.url = ViewUrl(hd.file_id),
               !.download_url = DownloadUrl(hd.file_id)]

\* faulty variant of find_file_by_name: the scope clause names the folder by its name,
\* which is no object's parent
find_file_by_name_scoped_by_folder_name(d, hd, name) ==
    IF hd.folder_id # None THEN {None} ELSE FirstOf(FileQuery(d, name, None))

\* Driverator._find_file_by_name: the ids it may return
find_file_by_name(d, hd, name) == FirstOf(FileQuery(d, name, hd.folder_id))

\* Driverator._find_folder_by_name: the ids it may return
find_folder_by_name(d, hd, name, parent_folder_id) ==
    FirstOf(FolderQuery(d, name,
                        IF parent_folder_id # None THEN parent_folder_id
                        ELSE hd.folder_id))

\* Driverator._create_folder: the parents of the folder it creates
create_folder_parents(hd, parent_folder_id) ==
    IF parent_folder_id # None THEN {parent_folder_id}
    ELSE IF hd.folder_id # None THEN {hd.folder_id}
    ELSE {}

\* Driverator.url / Driverator.download_url: the value the property returns
url(hd) ==
    IF hd.url = NoUrl /\ hd.file_id # None THEN ViewUrl(hd.file_id) ELSE hd.url
download_url(hd) ==
    IF hd.download_url = NoUrl /\ hd.file_id # None
    THEN DownloadUrl(hd.file_id) ELSE hd.download_url

\* ids of remote objects a caller can name as a file / as a folder
KnownFileIds == {i \in Ids : i < nextId /\ drive[i].kind # "folder"}
KnownFolderIds == {i \in Ids : drive[i].kind = "folder"}

\* ---------------------------------------------------------------- actions
\* the call raises before it changed anything
Raise(op, h, outcome, calls) ==
    /\ last' = Result(op, h, outcome, calls, FALSE)
    /\ UNCHANGED <<handle, drive, nextId, downloaded, hist>>

\* faulty variant of NoFileId: the guard is missing
NoFileId_unchecked(hd) == FALSE

\* "if not self.file_id: raise ValueError(...)", the guard of nine operations
NoFileId(hd) == hd.file_id = None
NO_FILE_ID == "ValueError: No file_id set. Call initialize() or upload() first."
NO_TARGET == "ValueError: Must provide folder_id or folder_name"
NO_PERMISSION == "ValueError: No permission found"

\* Driverator(service_account_file, file_id, file_name, folder_id, folder_name)
Construct(h, file_id, file_name, folder_id, folder_name) ==
    /\ handle' = [handle EXCEPT
                    ![h] = NewHandle(file_id, file_name, folder_id, folder_name)]
    /\ last' = Result("construct", h, "ok", 0, FALSE)
    /\ UNCHANGED <<drive, nextId, downloaded, hist>>

\* reading the properties url / download_url caches them in _url / _download_url
ReadUrl(h) ==
    /\ handle' = [handle EXCEPT ![h].url = url(handle[h])]
    /\ last' = Result("url", h, "ok", 0, FALSE)
    /\ UNCHANGED <<drive, nextId, downloaded, hist>>

ReadDownloadUrl(h) ==
    /\ handle' = [handle EXCEPT ![h].download_url = download_url(handle[h])]
    /\ last' = Result("download_url", h, "ok", 0, FALSE)
    /\ UNCHANGED <<drive, nextId, downloaded, hist>>

\* Driverator.initialize; keyOk: the service-account key file is usable
Initialize(h, keyOk, net) ==
    LET hd0 == handle[h]
        hd1 == [hd0 EXCEPT !.drive_service = TRUE]
        needFolder == hd1.folder_name # NoName /\ hd1.folder_id = None
        needFile == hd1.file_name # NoName /\ hd1.file_id = None
    IN
    IF ~keyOk THEN
        /\ last' = Result("initialize", h, "AuthError", 0, FALSE)
        /\ UNCHANGED <<handle, drive, nextId, downloaded, hist>>
    ELSE IF ~net /\ (needFolder \/ needFile) THEN
        /\ handle' = [handle EXCEPT ![h] = hd1]
        /\ last' = Result("initialize", h, "RemoteError", 1, FALSE)
        /\ UNCHANGED <<drive, nextId, downloaded, hist>>
    ELSE
        \E fo \in (IF needFolder
                   THEN find_folder_by_name(drive, hd1, hd1.folder_name, None)
                   ELSE {hd1.folder_id}) :
          LET create == needFolder /\ fo = None
              d2 == IF create
                    THEN FilesCreate(drive, nextId, "folder", hd1.folder_name,
                                     create_folder_parents(hd1, None), "")
                    ELSE drive
              hd2 == [hd1 EXCEPT !.folder_id = IF create THEN nextId ELSE fo]
          IN
          /\ create => nextId <= MaxId
          /\ \E fi \in (IF needFile
                        THEN find_file_by_name(d2, hd2, hd2.file_name)
                        ELSE {hd2.file_id}) :
               LET hd3 == [hd2 EXCEPT !.file_id = fi]
                   ex == exists(d2, hd3, net)
                   hd4 == IF ex THEN load_metadata(d2, hd3) ELSE hd3
                   calls == (IF needFolder THEN 1 ELSE 0)
                            + (IF create THEN 1 ELSE 0)
                            + (IF needFile THEN 1 ELSE 0)
                            + existsCalls(hd3) + (IF ex THEN 1 ELSE 0)
               IN
               /\ handle' = [handle EXCEPT ![h] = hd4]
               /\ drive' = d2
               /\ nextId' = IF create THEN nextId + 1 ELSE nextId
               /\ last' = [Saving(Result("initialize", h, "ok", calls, ex),
                                   hd4) EXCEPT !.before = hd0]
               /\ UNCHANGED <<downloaded, hist>>

\* await handle.exists()
Exists(h, net) ==
    /\ last' = [Result("exists", h, "ok", existsCalls(handle[h]), FALSE)
                  EXCEPT !.ret = exists(drive, handle[h], net), !.net = net]
    /\ UNCHANGED <<handle, drive, nextId, downloaded, hist>>

\* faulty variant of upload_fields: _url and _download_url are not refreshed
upload_fields_stale_urls(hd, id, name, content) ==
    [hd EXCEPT !.file_id = id,
               !.file_name = name,
               !.size = SizeOf(content),
               !.mime_type = PLAIN_MIME]

\* faulty variant of upload_fields: file_id is not taken from the response
upload_fields_keeps_id(hd, id, name, content) ==
    [hd EXCEPT !.file_name = name,
               !.size = SizeOf(content),
               !.mime_type = PLAIN_MIME,
               !.url = ViewUrl(id),
               !.download_url = DownloadUrl(id)]

\* Driverator.upload: the fields set from the provider's response
upload_fields(hd, id, name, content) ==
    [hd EXCEPT !.file_id = id,
               !.file_name = name,
               !.size = SizeOf(content),
               !.mime_type = PLAIN_MIME,
               !.url = ViewUrl(id),
               !.download_url = DownloadUrl(id)]

\* Driverator.upload
Upload(h, local_path, net) ==
    LET hd == handle[h]
        upload_name == IF hd.file_name # NoName THEN hd.file_name
                       ELSE BaseName(local_path)
        parents == IF hd.folder_id # None THEN {hd.folder_id} ELSE {}
        content == ContentOf(local_path)
        hd1 == upload_fields(hd, nextId, upload_name, content)
    IN
    IF local_path = MissingPath THEN Raise("upload", h, "FileNotFoundError", 0)
    ELSE IF ~hd.drive_service THEN Raise("upload", h, "AttributeError", 0)
    ELSE IF ~net THEN Raise("upload", h, "RemoteError", 1)
    ELSE
        /\ nextId <= MaxId
        /\ drive' = FilesCreate(drive, nextId, "file", upload_name, parents,
                                content)
        /\ nextId' = nextId + 1
        /\ handle' = [handle EXCEPT ![h] = hd1]
        /\ hist' = [hist EXCEPT !.put[nextId] = <<content>>]
        /\ last' = Saving(Result("upload", h, "ok", 1, TRUE), hd1)
        /\ UNCHANGED downloaded

\* Driverator.update
Update(h, local_path, net) ==
    LET hd == handle[h]
        content == ContentOf(local_path)
        hd1 == [hd EXCEPT !.size = SizeOf(content), !.mime_type = PLAIN_MIME]
    IN
    IF NoFileId(hd) THEN Raise("update", h, NO_FILE_ID, 0)
    ELSE IF local_path = MissingPath
        THEN Raise("update", h, "FileNotFoundError", 0)
    ELSE IF ~hd.drive_service THEN Raise("update", h, "AttributeError", 0)
    ELSE IF ~net \/ ~Present(drive, hd.file_id)
        THEN Raise("update", h, "RemoteError", 1)
    ELSE
        /\ drive' = [drive EXCEPT ![hd.file_id].content = content]
        /\ handle' = [handle EXCEPT ![h] = hd1]
        /\ hist' = [hist EXCEPT !.put[hd.file_id] = Append(@, content)]
        /\ last' = Saving(Result("update", h, "ok", 1, TRUE), hd1)
        /\ UNCHANGED <<nextId, downloaded>>

\* faulty variant of download_chunks: the loop stops before the first chunk
download_chunks_none(d, hd) == ""

\* Driverator.download: what the next_chunk() loop writes, get_media of file_id
download_chunks(d, hd) == d[hd.file_id].content

\* Driverator.download: open(local_path, 'wb') truncates, then the chunks
Download(h, net) ==
    LET hd == handle[h] IN
    IF NoFileId(hd) THEN Raise("download", h, NO_FILE_ID, 0)
    ELSE IF ~hd.drive_service THEN Raise("download", h, "AttributeError", 0)
    ELSE IF ~net \/ ~Present(drive, hd.file_id) THEN
        /\ downloaded' = ""
        /\ last' = Result("download", h, "RemoteError", 1, FALSE)
        /\ UNCHANGED <<handle, drive, nextId, hist>>
    ELSE
        /\ downloaded' = download_chunks(drive, hd)
        /\ last' = Result("download", h, "ok", 1, FALSE)
        /\ UNCHANGED <<handle, drive, nextId, hist>>

\* faulty variant of rename_saved: json_cache_save() is not called
rename_unsaved(h, hd1) == Result("rename", h, "ok", 1, FALSE)

\* Driverator.rename: self.file_name is set, then self.json_cache_save()
rename_saved(h, hd1) == Saving(Result("rename", h, "ok", 1, TRUE), hd1)

\* Driverator.rename
Rename(h, new_name, net) ==
    LET hd == handle[h]
        hd1 == [hd EXCEPT !.file_name = new_name]
    IN
    IF NoFileId(hd) THEN Raise("rename", h, NO_FILE_ID, 0)
    ELSE IF ~hd.drive_service THEN Raise("rename", h, "AttributeError", 0)
    ELSE IF ~net \/ ~Present(drive, hd.file_id)
        THEN Raise("rename", h, "RemoteError", 1)
    ELSE
        /\ drive' = [drive EXCEPT ![hd.file_id].name = new_name]
        /\ handle' = [handle EXCEPT ![h] = hd1]
        /\ last' = rename_saved(h, hd1)
        /\ UNCHANGED <<nextId, downloaded, hist>>

\* faulty variant of previous_parents: removeParents is left empty
previous_parents_none(d, hd) == {}

\* Driverator.move: file.get('parents', []) of files().get(fields='parents')
previous_parents(d, hd) == d[hd.file_id].parents

\* files().update(addParents = add, removeParents = ",".join(remove)): the
\* parent sets the provider may leave.  The request names the parents to add
\* and to remove, not the resulting set; when an id is in both lists the
\* result depends on which list the provider applies first.
UpdateParents(parents, add, remove) ==
    {(parents \ remove) \cup {add}, (parents \cup {add}) \ remove}

\* Driverator.move
Move(h, folder_id, folder_name, net) ==
    LET hd == handle[h]
        resolve == folder_name # NoName /\ folder_id = None
    IN
    IF NoFileId(hd) THEN Raise("move", h, NO_FILE_ID, 0)
    ELSE IF resolve /\ ~hd.drive_service
        THEN Raise("move", h, "AttributeError", 0)
    ELSE IF resolve /\ ~net THEN Raise("move", h, "RemoteError", 1)
    ELSE
        \E fo \in (IF resolve
                   THEN find_folder_by_name(drive, hd, folder_name, None)
                   ELSE {folder_id}) :
          LET create == resolve /\ fo = None
              target_folder == IF create THEN nextId ELSE fo
              d2 == IF create
                    THEN FilesCreate(drive, nextId, "folder", folder_name,
                                     create_folder_parents(hd, None), "")
                    ELSE drive
              n2 == IF create THEN nextId + 1 ELSE nextId
              calls == (IF resolve THEN 1 ELSE 0) + (IF create THEN 1 ELSE 0)
              hd1 == [hd EXCEPT !.folder_id = target_folder,
                                !.folder_name = IF folder_name # NoName
                                                THEN folder_name ELSE @]
              prev == previous_parents(d2, hd)
              res(outcome, n, saved) ==
                  [Result("move", h, outcome, n, saved)
                     EXCEPT !.arg = folder_name, !.argId = folder_id]
          IN
          /\ create => nextId <= MaxId
          /\ IF target_folder = None THEN
                 /\ last' = res(NO_TARGET, 0, FALSE)
                 /\ UNCHANGED <<handle, drive, nextId, downloaded, hist>>
             ELSE IF ~hd.drive_service THEN
                 /\ last' = res("AttributeError", 0, FALSE)
                 /\ UNCHANGED <<handle, drive, nextId, downloaded, hist>>
             ELSE IF ~net \/ ~Present(d2, hd.file_id) THEN
                 \* files().get(fields='parents') raises; a folder created
                 \* by the resolution above stays
                 /\ drive' = d2
                 /\ nextId' = n2
                 /\ last' = res("RemoteError", calls + 1, FALSE)
                 /\ UNCHANGED <<handle, downloaded, hist>>
             ELSE
                 /\ \E parents \in UpdateParents(d2[hd.file_id].parents,
                                                  target_folder, prev) :
                      drive' = [d2 EXCEPT ![hd.file_id].parents = parents]
                 /\ nextId' = n2
                 /\ handle' = [handle EXCEPT ![h] = hd1]
                 /\ last' = [Saving(res("ok", calls + 2, TRUE), hd1)
                               EXCEPT !.previous_parents = prev]
                 /\ UNCHANGED <<downloaded, hist>>

\* Driverator.delete
Delete(h, permanent, net) ==
    LET hd == handle[h] IN
    IF NoFileId(hd) THEN Raise("delete", h, NO_FILE_ID, 0)
    ELSE IF ~hd.drive_service THEN Raise("delete", h, "AttributeError", 0)
    ELSE IF ~net \/ ~Present(drive, hd.file_id)
        THEN Raise("delete", h, "RemoteError", 1)
    ELSE
        /\ drive' = IF permanent
                    THEN [drive EXCEPT ![hd.file_id] = NoObject]
                    ELSE [drive EXCEPT ![hd.file_id].trashed = TRUE]
        /\ hist' = [hist EXCEPT !.deleted = @ \cup {hd.file_id}]
        /\ last' = [Result("delete", h, "ok", 1, FALSE)
                      EXCEPT !.ret = permanent]
        /\ UNCHANGED <<handle, nextId, downloaded>>

\* ------------------------------------------------------------ permissions
\* the provider keeps one permission per principal: its id names the principal
PermissionId(type, email) == IF type = "anyone" THEN "anyoneWithLink" ELSE email

\* permissions().create(fileId, body = {type, role, emailAddress})
PermissionsCreate(perms, type, role, email) ==
    LET id == PermissionId(type, email)
        at == {k \in 1..Len(perms) : perms[k].id = id}
    IN IF at # {}
       THEN [k \in 1..Len(perms) |->
               IF k \in at THEN [perms[k] EXCEPT !.role = role] ELSE perms[k]]
       ELSE Append(perms, [id |-> id, type |-> type, role |-> role,
                           emailAddress |-> email])

\* permissions().delete(fileId, permissionId)
PermissionsDelete(perms, id) == SelectSeq(perms, LAMBDA p : p.id # id)

RECURSIVE ShareAll(_, _, _)
\* the loop of Driverator.share: one permissions().create per address
ShareAll(perms, email_addresses, role) ==
    IF email_addresses = <<>> THEN perms
    ELSE ShareAll(PermissionsCreate(perms, "user", role, Head(email_addresses)),
                  Tail(email_addresses), role)

\* Driverator.share; a str argument is wrapped into a one-element list
Share(h, email_addresses, role, net) ==
    LET hd == handle[h] IN
    IF NoFileId(hd) THEN Raise("share", h, NO_FILE_ID, 0)
    ELSE IF email_addresses = <<>> THEN Raise("share", h, "ok", 0)
    ELSE IF ~hd.drive_service THEN Raise("share", h, "AttributeError", 0)
    ELSE IF ~net \/ ~Present(drive, hd.file_id)
        THEN Raise("share", h, "RemoteError", 1)
    ELSE
        /\ drive' = [drive EXCEPT ![hd.file_id].perms =
                       ShareAll(@, email_addresses, role)]
        /\ last' = Result("share", h, "ok", Len(email_addresses), FALSE)
        /\ UNCHANGED <<handle, nextId, downloaded, hist>>

\* Driverator.set_anyone_access
SetAnyoneAccess(h, role, net) ==
    LET hd == handle[h] IN
    IF NoFileId(hd) THEN Raise("set_anyone_access", h, NO_FILE_ID, 0)
    ELSE IF ~hd.drive_service
        THEN Raise("set_anyone_access", h, "AttributeError", 0)
    ELSE IF ~net \/ ~Present(drive, hd.file_id)
        THEN Raise("set_anyone_access", h, "RemoteError", 1)
    ELSE
        /\ drive' = [drive EXCEPT ![hd.file_id].perms =
                       PermissionsCreate(@, "anyone", role, NoName)]
        /\ last' = Result("set_anyone_access", h, "ok", 1, FALSE)
        /\ UNCHANGED <<handle, nextId, downloaded, hist>>

\* Driverator.list_permissions
ListPermissions(h, net) ==
    LET hd == handle[h] IN
    IF NoFileId(hd) THEN Raise("list_permissions", h, NO_FILE_ID, 0)
    ELSE IF ~hd.drive_service
        THEN Raise("list_permissions", h, "AttributeError", 0)
    ELSE IF ~net \/ ~Present(drive, hd.file_id)
        THEN Raise("list_permissions", h, "RemoteError", 1)
    ELSE
        /\ last' = [Result("list_permissions", h, "ok", 1, FALSE)
                      EXCEPT !.perms = drive[hd.file_id].perms]
        /\ UNCHANGED <<handle, drive, nextId, downloaded, hist>>

\* faulty variant of FirstMatch: the comparison with email_address is missing
FirstMatch_any_entry(permissions, email_address) ==
    IF permissions = <<>> THEN 0 ELSE 1

\* the loop of Driverator.remove_permission: the first entry of the list
\* whose emailAddress is email_address (0: none)
FirstMatch(permissions, email_address) ==
    LET at == {k \in 1..Len(permissions) :
                 permissions[k].emailAddress = email_address}
    IN IF at = {} THEN 0 ELSE CHOOSE k \in at : \A j \in at : k <= j

\* Driverator.remove_permission
RemovePermission(h, email_address, net) ==
    LET hd == handle[h]
        res(outcome, n) ==
            [Result("remove_permission", h, outcome, n, FALSE)
               EXCEPT !.arg = email_address]
    IN
    IF NoFileId(hd) THEN Raise("remove_permission", h, NO_FILE_ID, 0)
    ELSE IF ~hd.drive_service
        THEN Raise("remove_permission", h, "AttributeError", 0)
    ELSE IF ~net \/ ~Present(drive, hd.file_id)
        THEN Raise("remove_permission", h, "RemoteError", 1)
    ELSE
        LET permissions == drive[hd.file_id].perms
            k == FirstMatch(permissions, email_address)
        IN
        IF k = 0 THEN
            /\ last' = res(NO_PERMISSION, 1)
            /\ UNCHANGED <<handle, drive, nextId, downloaded, hist>>
        ELSE
            /\ drive' = [drive EXCEPT ![hd.file_id].perms =
                           PermissionsDelete(@, permissions[k].id)]
            /\ last' = res("ok", 2)
            /\ UNCHANGED <<handle, nextId, downloaded, hist>>

\* ------------------------------------------------------ the specification
\* the address lists a caller passes to share()
AddressLists ==
    {<<>>} \cup {<<e>> : e \in Emails}
           \cup {<<a, b>> : a \in Emails, b \in Emails}

\* The calls of a caller that works with one Handle at a time.
One == {1}

LifeCall ==
    \/ \E h \in One, fid \in KnownFileIds \cup {None},
          fn \in FileNames \cup {NoName},
          foid \in KnownFolderIds \cup {None},
          fon \in FolderNames \cup {NoName} :
            \* the caller names the file, and the folder, by id or by name
            /\ (fid = None \/ fn = NoName) /\ (foid = None \/ fon = NoName)
            /\ Construct(h, fid, fn, foid, fon)
    \/ \E h \in One, keyOk \in BOOLEAN, net \in BOOLEAN :
            Initialize(h, keyOk, net)
    \/ \E h \in One : ReadUrl(h)
    \/ \E h \in One : ReadDownloadUrl(h)
    \/ \E h \in One, net \in BOOLEAN : Exists(h, net)
    \/ \E h \in One, p \in LocalPaths \cup {MissingPath}, net \in BOOLEAN :
            Upload(h, p, net)
    \/ \E h \in One, p \in LocalPaths \cup {MissingPath}, net \in BOOLEAN :
            Update(h, p, net)
    \/ \E h \in One, net \in BOOLEAN : Download(h, net)
    \/ \E h \in One, n \in FileNames, net \in BOOLEAN : Rename(h, n, net)
    \/ \E h \in One, foid \in KnownFolderIds \cup {None},
          fon \in FolderNames \cup {NoName}, net \in BOOLEAN :
            Move(h, foid, fon, net)
    \/ \E h \in One, permanent \in BOOLEAN, net \in BOOLEAN :
            Delete(h, permanent, net)

\* Every operation of the class, on one Handle at a time.
AccessCall ==
    \/ \E h \in One, a \in AddressLists, r \in Roles, net \in BOOLEAN :
            Share(h, a, r, net)
    \/ \E h \in One, r \in Roles, net \in BOOLEAN :
            SetAnyoneAccess(h, r, net)
    \/ \E h \in One, net \in BOOLEAN : ListPermissions(h, net)
    \/ \E h \in One, e \in Emails \cup {OtherEmail}, net \in BOOLEAN :
            RemovePermission(h, e, net)

Next == ncalls < MaxCalls /\ ncalls' = ncalls + 1 /\ (LifeCall \/ AccessCall)

Spec == Init /\ [][Next]_vars

\* Callers that name files and folders by name only, on independent Handles;
\* every remote call succeeds.
ResolveCall ==
    \/ \E h \in Handles, fn \in {"pytest_upload.txt", NoName},
          fon \in FolderNames \cup {NoName} :
            Construct(h, None, fn, None, fon)
    \/ \E h \in Handles : Initialize(h, TRUE, TRUE)
    \/ \E h \in Handles : Upload(h, "test/pytest_upload.txt", TRUE)
    \/ \E h \in Handles, fon \in FolderNames : Move(h, None, fon, TRUE)
    \/ \E h \in Handles : Delete(h, FALSE, TRUE)

NextResolve ==
    ncalls < MaxResolveCalls /\ ncalls' = ncalls + 1 /\ ResolveCall

SpecResolve == Init /\ [][NextResolve]_vars

\* The remote store is shared: a file there can have no parent, one, or
\* several (move joins whatever list files().get returns).  Another client
\* of the store adds folder p to the parents of file i.
AddParent(i, p) ==
    /\ Present(drive, i) /\ drive[i].kind = "file"
    /\ Present(drive, p) /\ drive[p].kind = "folder"
    /\ p \notin drive[i].parents
    /\ drive' = [drive EXCEPT ![i].parents = @ \cup {p}]
    /\ last' = Result("remote: add parent", 1, "ok", 0, FALSE)
    /\ UNCHANGED <<handle, nextId, downloaded, hist>>

\* A caller that uploads a file and moves it, by folder id or by folder
\* name, while the file's parents also change remotely.
MoveCall ==
    \/ \E foid \in KnownFolderIds \cup {None}, fon \in FolderNames \cup {NoName} :
            /\ (foid = None \/ fon = NoName)
            /\ Construct(1, None, "pytest_upload.txt", foid, fon)
    \/ Initialize(1, TRUE, TRUE)
    \/ Upload(1, "test/pytest_upload.txt", TRUE)
    \/ \E foid \in KnownFolderIds \cup {None},
          fon \in FolderNames \cup {NoName}, net \in BOOLEAN :
            Move(1, foid, fon, net)
    \/ \E i \in Ids, p \in Ids : AddParent(i, p)

NextMove == ncalls < MaxMoveCalls /\ ncalls' = ncalls + 1 /\ MoveCall

SpecMove == Init /\ [][NextMove]_vars

\* ================================================================ claims
Unchanged == handle' = handle /\ drive' = drive /\ nextId' = nextId
                 /\ downloaded' = downloaded /\ hist' = hist

GuardedOps ==
    {"update", "download", "rename", "move", "delete", "share",
     "set_anyone_access", "list_permissions", "remove_permission"}

\* C1: on a Handle whose file_id is unset, each of update, download, rename,
\* move, delete, share, set_anyone_access, list_permissions and
\* remove_permission raises the precondition ValueError, issues no remote
\* call, and leaves the Handle's fields, the remote store and the local
\* resource as they were.
C1_UnsetFileIdRaises ==
    [][(last'.op \in GuardedOps /\ handle[last'.h].file_id = None)
         => /\ last'.outcome = NO_FILE_ID
            /\ last'.calls = 0
            /\ ~last'.saved
            /\ Unchanged]_vars

\* a guarded call was refused on an initialized Handle while the remote store
\* holds objects
C1_Witness ==
    /\ last.op = "move" /\ last.outcome = NO_FILE_ID
    /\ handle[last.h].file_id = None
    /\ handle[last.h].drive_service
    /\ \E i \in Ids : Present(drive, i)

C3_DeletedNeverExists ==
    /\ \A h \in Handles :
         handle[h].file_id \in hist.deleted
            => \A net \in BOOLEAN : ~exists(drive, handle[h], net)
    /\ (last.op = "exists" /\ handle[last.h].file_id \in hist.deleted)
            => ~last.ret

\* exists() was called after a trash delete, on an object that is still there
C3_Witness ==
    /\ last.op = "exists" /\ ~last.ret /\ last.net
    /\ handle[last.h].file_id \in hist.deleted
    /\ handle[last.h].drive_service
    /\ Present(drive, handle[last.h].file_id)

\* C4: exists() never raises and changes nothing; it returns false without a
\* remote call when file_id is unset, false when the fetch fails (client not
\* built, network or provider failure, object not found), and otherwise true
\* iff the fetched object is not trashed.
C4_ExistsTotal ==
    [][last'.op = "exists" =>
         LET hd == handle[last'.h]
             fetched == /\ hd.file_id # None /\ hd.drive_service /\ last'.net
                        /\ hd.file_id \in Ids
                        /\ drive[hd.file_id].kind # "none"
         IN
         /\ last'.outcome = "ok"
         /\ Unchanged
         /\ hd.file_id = None => (~last'.ret /\ last'.calls = 0)
         /\ ~fetched => ~last'.ret
         /\ fetched => (last'.ret <=> ~drive[hd.file_id].trashed)]_vars

\* exists() returned false because the client was never built
C4_Witness ==
    /\ last.op = "exists" /\ ~last.ret /\ last.net
    /\ handle[last.h].file_id # None
    /\ ~handle[last.h].drive_service
    /\ Present(drive, handle[last.h].file_id)
    /\ ~drive[handle[last.h].file_id].trashed

\* C6: remove_permission(email) on a Handle with file_id set, once it has
\* the permission list: if no entry carries the email it raises the "not
\* found" ValueError after the one list call and changes nothing; otherwise
\* it deletes exactly the first entry carrying the email, keeps every other
\* entry in order, and the email no longer appears in the list.
C6_RemovePermission ==
    [][(/\ last'.op = "remove_permission"
        /\ handle[last'.h].file_id # None
        /\ last'.outcome \notin {"AttributeError", "RemoteError"})
         => LET fid == handle[last'.h].file_id
                old == drive[fid].perms
                new == drive'[fid].perms
                hits == {k \in 1..Len(old) : old[k].emailAddress = last'.arg}
            IN
            /\ hits = {} =>
                 /\ last'.outcome = NO_PERMISSION
                 /\ last'.calls = 1
                 /\ Unchanged
            /\ hits # {} =>
                 /\ last'.outcome = "ok"
                 /\ \E k \in hits :
                      new = [j \in 1..(Len(old) - 1) |->
                               IF j < k THEN old[j] ELSE old[j + 1]]
                 /\ \A j \in 1..Len(new) : new[j].emailAddress # last'.arg
                 /\ \A i \in Ids \ {fid} : drive'[i] = drive[i]
                 /\ handle' = handle]_vars

\* remove_permission did not find the address in a list that holds the
\* owner's entry and another user's
C6_Witness ==
    /\ last.op = "remove_permission" /\ last.outcome = NO_PERMISSION
    /\ last.arg = OtherEmail
    /\ handle[last.h].file_id # None
    /\ \E k \in 1..Len(drive[handle[last.h].file_id].perms) :
         drive[handle[last.h].file_id].perms[k].emailAddress \in Emails

\* C7: when upload() succeeds, file_id is the id of the object the provider
\* just created and exists() is true when the fetch succeeds; and it stays
\* true on that Handle until a delete() succeeds.
C7_UploadThenExists ==
    [][\A h \in Handles :
         /\ (last'.op = "upload" /\ last'.h = h /\ last'.outcome = "ok")
              => /\ handle'[h].file_id = nextId
                 /\ ~Present(drive, nextId) /\ Present(drive', nextId)
                 /\ exists(drive', handle'[h], TRUE)
         /\ (/\ exists(drive, handle[h], TRUE)
             /\ ~(last'.op = "construct" /\ last'.h = h)
             /\ ~(last'.op = "delete" /\ last'.outcome = "ok"))
              => exists(drive', handle'[h], TRUE)]_vars

\* exists() returned true on a Handle that uploaded its object two calls ago
C7_Witness ==
    /\ last.op = "exists" /\ last.ret
    /\ hist.put[handle[last.h].file_id] # <<>>
    /\ handle[last.h].file_id = nextId - 1

\* C8: a successful download() leaves in the local resource the content most
\* recently sent to the Handle's object: the uploaded content, or that of
\* the last update() since.
C8_RoundTrip ==
    [][(last'.op = "download" /\ last'.outcome = "ok")
         => LET sent == hist.put[handle[last'.h].file_id] IN
            /\ sent # <<>>
            /\ downloaded' = sent[Len(sent)]]_vars

\* downloaded after upload of "Test content" and update to "Updated content"
C8_Witness ==
    /\ last.op = "download" /\ last.outcome = "ok"
    /\ hist.put[handle[last.h].file_id] = <<"Test content", "Updated content">>
    /\ downloaded = "Updated content"

Mutating == {"upload", "update", "rename", "move"}

\* C9 as stated: every successful upload, update, rename, move and delete
\* rewrites the cache entry, which then mirrors the Handle's fields.
C9_AsStated ==
    [][(last'.op \in Mutating \cup {"delete"} /\ last'.outcome = "ok")
         => /\ last'.saved
            /\ last'.cache = CacheEntry(handle'[last'.h])]_vars

\* C9, for the operations that save: every successful upload, update, rename and move rewrites the
\* cache entry under the Handle's data_id, and the entry then mirrors the
\* Handle's fields; delete (permanent or trash) writes no cache entry and
\* changes no field of the Handle.
C9_WriteThrough ==
    [][/\ (last'.op \in Mutating /\ last'.outcome = "ok")
            => /\ last'.saved
               /\ last'.cache = CacheEntry(handle'[last'.h])
               /\ last'.cache.data_id = handle'[last'.h].cache_id
       /\ last'.op = "delete"
            => /\ ~last'.saved
               /\ last'.cache = NoEntry
               /\ handle' = handle]_vars

\* rename() saved an entry that carries the new name
C9_Witness ==
    /\ last.op = "rename" /\ last.outcome = "ok" /\ last.saved
    /\ last.cache.file_name = "pytest_renamed.txt"
    /\ handle[last.h].file_name = "pytest_renamed.txt"

\* C10: move(folder_name = n) adopts the folder initialize() of a fresh
\* Handle(folder_name = n) would adopt in the same remote state: a match of
\* the same search, or else a new folder with the parent initialize() gives.
C10_MoveResolvesLikeInitialize ==
    [][(/\ last'.op = "move" /\ last'.outcome = "ok"
        /\ last'.argId = None /\ last'.arg # NoName)
         => LET fresh == NewHandle(None, NoName, None, last'.arg)
                found == find_folder_by_name(drive, fresh, last'.arg, None)
                target == handle'[last'.h].folder_id
            IN
            IF found # {None}
            THEN target \in found /\ nextId' = nextId
            ELSE /\ target = nextId /\ nextId' = nextId + 1
                 /\ drive'[target].parents
                      = create_folder_parents(fresh, None)]_vars

\* move(folder_name = n) on a Handle whose current folder is the only folder
\* named n created a second folder named n inside it
C10_Witness ==
    /\ last.op = "move" /\ last.outcome = "ok"
    /\ last.argId = None /\ last.arg # NoName
    /\ LET target == handle[last.h].folder_id IN
       /\ target = nextId - 1
       /\ \E outer \in Ids :
            /\ drive[target].parents = {outer}
            /\ drive[outer].kind = "folder" /\ ~drive[outer].trashed
            /\ drive[outer].name = last.arg
            /\ drive[outer].parents = {}

\* a non-trashed file named file_name lies in a non-trashed folder named
\* folder_name
MatchExists(d, file_name, folder_name) ==
    \E fo \in FolderQuery(d, folder_name, None) :
        FileQuery(d, file_name, fo) # {}

\* exactly one non-trashed folder has the name, and exactly one non-trashed
\* file of the name lies in it
UniqueMatch(d, file_name, folder_name) ==
    /\ Cardinality(FolderQuery(d, folder_name, None)) = 1
    /\ \A fo \in FolderQuery(d, folder_name, None) :
         Cardinality(FileQuery(d, file_name, fo)) = 1

\* Handle h1 was constructed with names only and has just been initialized;
\* Handle h2, constructed with the same names, is initialized by this step
TwoInitializes(h1, h2) ==
    /\ h1 # h2
    /\ last.op = "initialize" /\ last.h = h1 /\ last.outcome = "ok"
    /\ last.before.file_id = None /\ last.before.folder_id = None
    /\ last.before.file_name # NoName /\ last.before.folder_name # NoName
    /\ last'.op = "initialize" /\ last'.h = h2 /\ last'.outcome = "ok"
    /\ handle[h2].file_id = None /\ handle[h2].folder_id = None
    /\ handle[h2].file_name = last.before.file_name
    /\ handle[h2].folder_name = last.before.folder_name

SameFile(h1, h2) ==
    /\ handle'[h2].file_id # None
    /\ handle'[h2].file_id = handle[h1].file_id
    /\ handle'[h1] = handle[h1]
    /\ drive' = drive /\ nextId' = nextId

\* C5 as stated: whenever a matching non-trashed file exists, two Handles
\* constructed with the same names and initialized one after the other end
\* with the same file_id, and the second initialize creates nothing.
C5_AsStated ==
    [][\A h1, h2 \in Handles :
         (/\ TwoInitializes(h1, h2)
          /\ MatchExists(drive, handle[h2].file_name, handle[h2].folder_name))
            => SameFile(h1, h2)]_vars

\* C5, restricted to unique matches: the same, when exactly one non-trashed folder has the name
\* folder_name and exactly one non-trashed file named file_name lies in it.
C5_ResolveByName ==
    [][\A h1, h2 \in Handles :
         (/\ TwoInitializes(h1, h2)
          /\ UniqueMatch(drive, handle[h2].file_name, handle[h2].folder_name))
            => SameFile(h1, h2)]_vars

\* two Handles constructed with the same names hold the one matching file
C5_Witness ==
    /\ last.op = "initialize" /\ last.h = 2 /\ last.outcome = "ok"
    /\ last.before.file_id = None /\ last.before.folder_id = None
    /\ last.before.file_name # NoName /\ last.before.folder_name # NoName
    /\ handle[1].file_id # None
    /\ handle[2].file_id = handle[1].file_id
    /\ handle[1].folder_name = last.before.folder_name
    /\ handle[1].drive_service
    /\ UniqueMatch(drive, last.before.file_name, last.before.folder_name)

\* the target t of a successful move: the folder_id given, or else a folder
\* named folder_name; the Handle's folder id is t, and the object keeps its
\* id, name and content
MoveKeepsObject(h, fid, t) ==
    /\ handle'[h].folder_id = t
    /\ last'.argId # None => t = last'.argId
    /\ last'.argId = None =>
         (Present(drive', t) /\ drive'[t].kind = "folder"
            /\ drive'[t].name = last'.arg)
    /\ handle'[h].file_id = fid
    /\ Present(drive', fid)
    /\ drive'[fid].kind = drive[fid].kind
    /\ drive'[fid].name = drive[fid].name
    /\ drive'[fid].content = drive[fid].content

====
